---------------------------- MODULE Spec2Model ----------------------------
(***************************************************************************)
(* A model of evolve.py: creatures walk at random on a square grid, eat    *)
(* food, and are culled at the end of each day when they did not eat.      *)
(*                                                                         *)
(* The state is the module's globals (foods, creatures, frame_counter,     *)
(* day_count), main's local `running`, the position of the control flow    *)
(* (pc, the caller of init_foods, the index of the creature loop) and the  *)
(* number of iterations of the main loop completed so far.  A creature     *)
(* is a dictionary object that end_of_day keeps and changes in place: its  *)
(* field `id` stands for the identity of the object (its rank at           *)
(* init_creatures).  `eaten` is the set of cells whose food was eaten in   *)
(* the running call of update_creatures.  Every call of the random module  *)
(* is a choice with \E over the values the call can return; a pending QUIT *)
(* event is a choice too.  The configuration                               *)
(* constants of lines 5-11 are held in `config`, chosen once at the start  *)
(* and never changed, so that one specification covers several             *)
(* configurations on grids much smaller than the 50x50 of the source.      *)
(***************************************************************************)
EXTENDS Integers, Sequences, FiniteSets

VARIABLES config, foods, creatures, frame_counter, day_count, running,
          pc, ret, idx, ticks, eaten

vars == <<config, foods, creatures, frame_counter, day_count, running,
          pc, ret, idx, ticks, eaten>>

(* ----- Bounds of the exploration ----- *)
MaxGrid == 3
MaxFoods == 2
MaxCreatures == 2
MaxDayLen == 2
MaxTicks == 3
(* the largest GRID_SIZE + NUM_FOODS + NUM_CREATURES of a configuration *)
MaxSize == 6
(* the largest NUM_CREATURES explored under the fairness conditions *)
MaxFairCreatures == 1

(* ----- Configuration (lines 5-11) ----- *)
Configs ==
    {c \in [GRID_SIZE : 1..MaxGrid, NUM_FOODS : 0..MaxFoods,
            NUM_CREATURES : 0..MaxCreatures, DAY_LENGTH_FRAMES : 1..MaxDayLen] :
        c.GRID_SIZE + c.NUM_FOODS + c.NUM_CREATURES <= MaxSize}

GRID_SIZE == config.GRID_SIZE
NUM_FOODS == config.NUM_FOODS
NUM_CREATURES == config.NUM_CREATURES
DAY_LENGTH_FRAMES == config.DAY_LENGTH_FRAMES

(* random.randint(0, GRID_SIZE - 1) *)
Coords == 0..(GRID_SIZE - 1)

(* (random.randint(0, GRID_SIZE - 1), random.randint(0, GRID_SIZE - 1)) *)
Cells == Coords \X Coords

Edges == {"top", "bottom", "left", "right"}

Moves == {<<1, 0>>, <<-1, 0>>, <<0, 1>>, <<0, -1>>, <<0, 0>>}

(* ----- Utility functions ----- *)
(* random_edge_position with the bottom edge one row below the grid *)
random_edge_position_below(edge, r) ==
    CASE edge = "top" -> <<r, 0>>
      [] edge = "bottom" -> <<r, GRID_SIZE>>
      [] edge = "left" -> <<0, r>>
      [] OTHER -> <<GRID_SIZE - 1, r>>

random_edge_position(edge, r) ==
    CASE edge = "top" -> <<r, 0>>
      [] edge = "bottom" -> <<r, GRID_SIZE - 1>>
      [] edge = "left" -> <<0, r>>
      [] OTHER -> <<GRID_SIZE - 1, r>>

(* pos in foods *)
InList(pos, list) == \E k \in 1..Len(list) : list[k] = pos

(* the food is eaten and stays in the list *)
ListRemoveNothing(list, pos) == list

(* list.remove(pos): removes the first occurrence *)
ListRemove(list, pos) ==
    LET first == CHOOSE k \in 1..Len(list) :
                     /\ list[k] = pos
                     /\ \A j \in 1..(k - 1) : list[j] # pos
    IN  [k \in 1..(Len(list) - 1) |-> IF k < first THEN list[k] ELSE list[k + 1]]

(* the loop test of init_foods with <= for < *)
init_foods_cond_inclusive(list) == Len(list) <= NUM_FOODS

(* while len(foods) < NUM_FOODS *)
init_foods_cond(list) == Len(list) < NUM_FOODS

(* the membership test of init_foods inverted: if pos in foods *)
init_foods_place_inverted(list, pos) ==
    IF InList(pos, list) THEN Append(list, pos) ELSE list

(* init_foods without the membership test *)
init_foods_place_always(list, pos) == Append(list, pos)

(* if pos not in foods: foods.append(pos) *)
init_foods_place(list, pos) ==
    IF ~InList(pos, list) THEN Append(list, pos) ELSE list

(* the bounds test with <= GRID_SIZE for < GRID_SIZE *)
ClampInclusive(old, new) == IF 0 <= new /\ new <= GRID_SIZE THEN new ELSE old

(* if 0 <= new < GRID_SIZE: coordinate = new *)
Clamp(old, new) == IF 0 <= new /\ new < GRID_SIZE THEN new ELSE old

(* new_y computed from dx: new_y = creature['y'] + dx *)
MovedBoth(c, d) == [c EXCEPT !.x = Clamp(c.x, c.x + d[1]), !.y = Clamp(c.y, c.y + d[1])]

(* the body of update_creatures' loop up to the food test *)
Moved(c, d) == [c EXCEPT !.x = Clamp(c.x, c.x + d[1]), !.y = Clamp(c.y, c.y + d[2])]

(* the creature eats and its flag `ate` is left as it was *)
FedNoAte(c, e) == [c EXCEPT !.state = "waiting", !.x = e[1], !.y = e[2]]

(* the creature eats and stays on the cell of the food *)
FedInPlace(c, e) == [c EXCEPT !.ate = TRUE, !.state = "waiting"]

(* the moved creature eats: ate, state and the new position e *)
Fed(c, e) == [c EXCEPT !.ate = TRUE, !.state = "waiting", !.x = e[1], !.y = e[2]]

(* a survivor is reset for the new day and placed at e *)
Reset(c, e) == [c EXCEPT !.state = "roaming", !.ate = FALSE, !.x = e[1], !.y = e[2]]

(* update_creatures without the skip of creatures that ate *)
SkippedNever(c) == FALSE

(* if creature['state'] != 'roaming': continue *)
Skipped(c) == c.state # "roaming"

(* creatures = creatures + survivors for creatures = survivors *)
SurvivorsAdded(list) == list \o SelectSeq(list, LAMBDA c : c.ate)

(* the filter of end_of_day keeping the creatures that did not eat *)
SurvivorsUnfed(list) == SelectSeq(list, LAMBDA c : ~c.ate)

(* the survivors taken from the end of the list to its start *)
SurvivorsReversed(list) ==
    LET kept == SelectSeq(list, LAMBDA c : c.ate)
    IN  [k \in 1..Len(kept) |-> kept[Len(kept) + 1 - k]]

(* [creature for creature in creatures if creature['ate']] *)
Survivors(list) == SelectSeq(list, LAMBDA c : c.ate)

(* the day test with > for >= *)
DayCompleteStrict(fc) == fc > DAY_LENGTH_FRAMES

(* if frame_counter >= DAY_LENGTH_FRAMES *)
DayComplete(fc) == fc >= DAY_LENGTH_FRAMES

(* ----- Initial state: the globals of lines 27-36 ----- *)
Init ==
    /\ config \in Configs
    /\ foods = <<>>
    /\ creatures = <<>>
    /\ frame_counter = 0
    /\ day_count = 1
    /\ running = TRUE
    /\ pc = "main"
    /\ ret = "none"
    /\ idx = 0
    /\ ticks = 0
    /\ eaten = {}

(* ----- main: the call of init_foods ----- *)
main_begin ==
    /\ pc = "main"
    /\ pc' = "init_foods"
    /\ ret' = "main"
    /\ UNCHANGED <<config, foods, creatures, frame_counter, day_count, running,
                   idx, ticks, eaten>>

(* ----- init_foods ----- *)
init_foods_clear ==
    /\ pc = "init_foods"
    /\ foods' = <<>>
    /\ pc' = "init_foods_while"
    /\ UNCHANGED <<config, creatures, frame_counter, day_count, running,
                   ret, idx, ticks, eaten>>

init_foods_sample ==
    /\ pc = "init_foods_while"
    /\ init_foods_cond(foods)
    /\ \E pos \in Cells : foods' = init_foods_place(foods, pos)
    /\ UNCHANGED <<config, creatures, frame_counter, day_count, running,
                   pc, ret, idx, ticks, eaten>>

init_foods_return ==
    /\ pc = "init_foods_while"
    /\ ~init_foods_cond(foods)
    /\ pc' = IF ret = "main" THEN "init_creatures" ELSE "end_of_day_tail"
    /\ ret' = "none"
    /\ UNCHANGED <<config, foods, creatures, frame_counter, day_count, running,
                   idx, ticks, eaten>>

(* ----- init_creatures ----- *)
init_creatures ==
    /\ pc = "init_creatures"
    /\ \E at \in [1..NUM_CREATURES -> Cells] :
          creatures' = [k \in 1..NUM_CREATURES |->
                           [id |-> k, x |-> at[k][1], y |-> at[k][2],
                            state |-> "roaming", ate |-> FALSE]]
    /\ pc' = "while"
    /\ UNCHANGED <<config, foods, frame_counter, day_count, running,
                   ret, idx, ticks, eaten>>

(* ----- main loop: one iteration starts ----- *)
main_frame ==
    /\ pc = "while"
    /\ running
    /\ ticks < MaxTicks
    /\ frame_counter' = frame_counter + 1
    /\ \E quit \in BOOLEAN : running' = ~quit
    /\ pc' = "update_creatures"
    /\ idx' = 1
    /\ UNCHANGED <<config, foods, creatures, day_count, ret, ticks, eaten>>

main_quit ==
    /\ pc = "while"
    /\ ~running
    /\ pc' = "done"
    /\ UNCHANGED <<config, foods, creatures, frame_counter, day_count, running,
                   ret, idx, ticks, eaten>>

(* ----- update_creatures: one iteration of its loop ----- *)
update_creature ==
    /\ pc = "update_creatures"
    /\ idx <= Len(creatures)
    /\ IF Skipped(creatures[idx])
         THEN UNCHANGED <<foods, creatures, eaten>>
         ELSE \E d \in Moves :
                 LET c == Moved(creatures[idx], d)
                     pos == <<c.x, c.y>>
                 IN  IF InList(pos, foods)
                       THEN /\ foods' = ListRemove(foods, pos)
                            /\ eaten' = eaten \cup {pos}
                            /\ \E edge \in Edges, r \in Coords :
                                  creatures' =
                                    [creatures EXCEPT ![idx] =
                                       Fed(c, random_edge_position(edge, r))]
                       ELSE /\ foods' = foods
                            /\ eaten' = eaten
                            /\ creatures' = [creatures EXCEPT ![idx] = c]
    /\ idx' = idx + 1
    /\ UNCHANGED <<config, frame_counter, day_count, running, pc, ret, ticks>>

(* update_creatures returning from inside its loop, after any creature *)
update_creatures_return_early ==
    /\ pc = "update_creatures"
    /\ idx > 1
    /\ pc' = "day_check"
    /\ idx' = 0
    /\ eaten' = {}
    /\ UNCHANGED <<config, foods, creatures, frame_counter, day_count, running,
                   ret, ticks>>

update_creatures_return ==
    /\ pc = "update_creatures"
    /\ idx > Len(creatures)
    /\ pc' = "day_check"
    /\ idx' = 0
    /\ eaten' = {}
    /\ UNCHANGED <<config, foods, creatures, frame_counter, day_count, running,
                   ret, ticks>>

(* ----- main: if frame_counter >= DAY_LENGTH_FRAMES ----- *)
main_day_check ==
    /\ pc = "day_check"
    /\ pc' = IF DayComplete(frame_counter) THEN "end_of_day" ELSE "draw"
    /\ UNCHANGED <<config, foods, creatures, frame_counter, day_count, running,
                   ret, idx, ticks, eaten>>

(* ----- end_of_day up to its call of init_foods ----- *)
end_of_day ==
    /\ pc = "end_of_day"
    /\ LET survivors == Survivors(creatures)
       IN  \E at \in [1..Len(survivors) -> Edges \X Coords] :
              creatures' = [k \in 1..Len(survivors) |->
                  Reset(survivors[k], random_edge_position(at[k][1], at[k][2]))]
    /\ pc' = "init_foods"
    /\ ret' = "end_of_day"
    /\ UNCHANGED <<config, foods, frame_counter, day_count, running,
                   idx, ticks, eaten>>

(* ----- end_of_day after init_foods returned ----- *)
end_of_day_tail ==
    /\ pc = "end_of_day_tail"
    /\ frame_counter' = 0
    /\ day_count' = day_count + 1
    /\ pc' = "draw"
    /\ UNCHANGED <<config, foods, creatures, running, ret, idx, ticks, eaten>>

(* ----- main: drawing, the end of one iteration ----- *)
main_draw ==
    /\ pc = "draw"
    /\ ticks' = ticks + 1
    /\ pc' = "while"
    /\ UNCHANGED <<config, foods, creatures, frame_counter, day_count, running,
                   ret, idx, eaten>>

Next ==
    \/ main_begin
    \/ init_foods_clear
    \/ init_foods_sample
    \/ init_foods_return
    \/ init_creatures
    \/ main_frame
    \/ main_quit
    \/ update_creature
    \/ update_creatures_return
    \/ main_day_check
    \/ end_of_day
    \/ end_of_day_tail
    \/ main_draw

Spec == Init /\ [][Next]_vars

(* the configurations explored under fairness: at most one creature *)
FairInit == Init /\ NUM_CREATURES <= MaxFairCreatures

(* init_foods under fair sampling: the function starts and returns when   *)
(* it can, and while a draw can be accepted one is accepted in the end     *)
(* (a draw that is rejected changes nothing).                              *)
FairSpec ==
    /\ FairInit
    /\ [][Next]_vars
    /\ WF_vars(init_foods_clear)
    /\ WF_vars(init_foods_sample /\ foods' # foods)
    /\ WF_vars(init_foods_return)

(* ----- Properties ----- *)

(* the state in which end_of_day has just returned to main *)
AfterEndOfDay == pc = "draw" /\ frame_counter = 0

(* the state between two iterations of the main loop *)
BetweenTicks == pc = "while"

Position(c) == <<c.x, c.y>>

(* C1: the number of food items is always between 0 and NUM_FOODS, and it *)
(* is exactly NUM_FOODS when end_of_day's init_foods has returned and in   *)
(* the state right after end_of_day.                                       *)
FoodBound ==
    /\ 0 <= Len(foods)
    /\ Len(foods) <= NUM_FOODS
    /\ (pc = "end_of_day_tail" \/ AfterEndOfDay) => Len(foods) = NUM_FOODS

(* end_of_day has rebuilt a food field of which a part was eaten before *)
FoodBoundWitness ==
    /\ AfterEndOfDay
    /\ NUM_FOODS >= 2
    /\ Len(creatures) >= 1
    /\ Len(foods) = NUM_FOODS

(* C2: end_of_day never makes the population larger, and after            *)
(* init_creatures no other step changes the size of the population.        *)
PopulationMonotone ==
    [][pc # "init_creatures" =>
          /\ Len(creatures') <= Len(creatures)
          /\ (pc # "end_of_day" => Len(creatures') = Len(creatures))]_vars

(* end_of_day has removed a part of the population and kept the rest *)
PopulationMonotoneWitness ==
    /\ AfterEndOfDay
    /\ 1 <= Len(creatures)
    /\ Len(creatures) < NUM_CREATURES

(* C3: until end_of_day runs, a creature that is 'waiting' keeps its      *)
(* position and its status through every step, and the step of            *)
(* update_creatures made for it removes no food.                           *)
FeedOnce ==
    [][\A k \in 1..Len(creatures) :
          (creatures[k].state = "waiting" /\ pc # "end_of_day") =>
              /\ k <= Len(creatures')
              /\ creatures'[k] = creatures[k]
              /\ (pc = "update_creatures" /\ idx = k) => foods' = foods]_vars

(* update_creatures is about to step a fed creature whose cell holds food *)
FeedOnceWitness ==
    /\ pc = "update_creatures"
    /\ idx <= Len(creatures)
    /\ creatures[idx].state = "waiting"
    /\ InList(Position(creatures[idx]), foods)

(* C4: every creature is on the grid, and so is every creature after any  *)
(* of the five moves.                                                      *)
BoundaryClamp ==
    \A k \in 1..Len(creatures) :
        /\ Position(creatures[k]) \in Cells
        /\ \A d \in Moves : Position(Moved(creatures[k], d)) \in Cells

(* a creature that has been stepped in this tick and an earlier one is    *)
(* still roaming and stands in a corner of a grid of two or more cells a   *)
(* side                                                                    *)
BoundaryClampWitness ==
    /\ pc = "update_creatures"
    /\ idx > 1
    /\ ticks >= 1
    /\ GRID_SIZE >= 2
    /\ creatures[idx - 1].state = "roaming"
    /\ creatures[idx - 1].x = GRID_SIZE - 1
    /\ creatures[idx - 1].y = 0

(* C5: between two iterations of the main loop, after `ticks` iterations, *)
(* day_count is 1 + ticks div DAY_LENGTH_FRAMES and frame_counter is       *)
(* ticks mod DAY_LENGTH_FRAMES; end_of_day runs only when frame_counter    *)
(* has reached DAY_LENGTH_FRAMES and an iteration never ends with the      *)
(* counter there; with a day of one frame the first iteration ends in day  *)
(* 2 with NUM_FOODS food items.                                            *)
DayCounting ==
    /\ BetweenTicks =>
          /\ day_count = 1 + (ticks \div DAY_LENGTH_FRAMES)
          /\ frame_counter = ticks % DAY_LENGTH_FRAMES
          /\ frame_counter \in 0..(DAY_LENGTH_FRAMES - 1)
    /\ (pc \in {"end_of_day", "end_of_day_tail"} \/ ret = "end_of_day") =>
          frame_counter = DAY_LENGTH_FRAMES
    /\ pc = "draw" => frame_counter < DAY_LENGTH_FRAMES
    /\ AfterEndOfDay => day_count = 1 + ((ticks + 1) \div DAY_LENGTH_FRAMES)
    /\ (BetweenTicks /\ DAY_LENGTH_FRAMES = 1 /\ ticks = 1) =>
          (day_count = 2 /\ Len(foods) = NUM_FOODS)

(* one creature, one food item, a day of one frame: the first iteration   *)
(* is over and the creature has eaten and survived                         *)
DayCountingWitness ==
    /\ BetweenTicks
    /\ DAY_LENGTH_FRAMES = 1
    /\ NUM_FOODS = 1
    /\ NUM_CREATURES = 1
    /\ ticks = 1
    /\ day_count = 2
    /\ Len(creatures) = 1


(* the food loop cannot end: it wants more food and every cell is taken *)
FoodLoopStuck ==
    /\ pc = "init_foods_while"
    /\ init_foods_cond(foods)
    /\ \A pos \in Cells : init_foods_place(foods, pos) = foods

(* C6: with NUM_FOODS above the number of cells the program never enters  *)
(* the loop of init_foods, and the loop is never in a state it cannot      *)
(* leave.                                                                  *)
ConfigurationGuard ==
    /\ NUM_FOODS > GRID_SIZE * GRID_SIZE => pc # "init_foods_while"
    /\ ~FoodLoopStuck

(* C7: with NUM_FOODS = 0 the food list is always empty, no creature is   *)
(* ever 'waiting' or has eaten, and from the first end_of_day on there is  *)
(* no creature left.                                                       *)
ZeroFood ==
    NUM_FOODS = 0 =>
        /\ foods = <<>>
        /\ \A k \in 1..Len(creatures) :
              creatures[k].state = "roaming" /\ ~creatures[k].ate
        /\ (day_count >= 2 \/ pc = "end_of_day_tail" \/ ret = "end_of_day") =>
              creatures = <<>>

(* a population of two with no food has passed its first end_of_day *)
ZeroFoodWitness ==
    /\ NUM_FOODS = 0
    /\ NUM_CREATURES = 2
    /\ day_count = 2
    /\ BetweenTicks
    /\ creatures = <<>>
    /\ foods = <<>>

(* the cells with a coordinate equal to 0 or to GRID_SIZE - 1 *)
BoundaryCells ==
    {p \in Cells : p[1] \in {0, GRID_SIZE - 1} \/ p[2] \in {0, GRID_SIZE - 1}}

(* C9: random_edge_position returns boundary cells only, returns every    *)
(* boundary cell for some draw, and the creatures it has placed (the       *)
(* 'waiting' ones, and all of them while end_of_day runs its init_foods)   *)
(* stand on boundary cells.                                                *)
EdgeSamplingRange ==
    /\ \A edge \in Edges, r \in Coords :
          random_edge_position(edge, r) \in BoundaryCells
    /\ {random_edge_position(edge, r) : edge \in Edges, r \in Coords} = BoundaryCells
    /\ \A k \in 1..Len(creatures) :
          (creatures[k].state = "waiting" \/ ret = "end_of_day"
              \/ pc = "end_of_day_tail") =>
                 Position(creatures[k]) \in BoundaryCells

(* on a grid with an interior cell, a creature has eaten and was placed   *)
(* in the corner opposite to the origin                                    *)
EdgeSamplingRangeWitness ==
    /\ GRID_SIZE = 3
    /\ BoundaryCells # Cells
    /\ \E k \in 1..Len(creatures) :
          /\ creatures[k].state = "waiting"
          /\ Position(creatures[k]) = <<2, 2>>

(* C10: no position is twice in the food list and every food position is *)
(* a cell of the grid.                                                     *)
FoodUnique ==
    /\ \A j, k \in 1..Len(foods) : j # k => foods[j] # foods[k]
    /\ \A k \in 1..Len(foods) : foods[k] \in Cells

(* end_of_day has rebuilt the food, and one of the two items was eaten    *)
(* since                                                                   *)
FoodUniqueWitness ==
    /\ day_count >= 2
    /\ NUM_FOODS = 2
    /\ Len(foods) = 1
    /\ \E k \in 1..Len(creatures) : creatures[k].state = "waiting"

(* C11: a creature is 'waiting' exactly when its flag `ate` is set; it    *)
(* goes from 'roaming' to 'waiting' exactly in the step of                 *)
(* update_creatures made for it that removes a food item, stays 'waiting'  *)
(* until end_of_day, and end_of_day leaves every creature 'roaming' with   *)
(* `ate` cleared.                                                          *)
FedIffAte ==
    /\ [](\A k \in 1..Len(creatures) :
            /\ creatures[k].state \in {"roaming", "waiting"}
            /\ (creatures[k].state = "waiting") = creatures[k].ate)
    /\ [][/\ pc # "end_of_day" =>
               \A k \in 1..Len(creatures) :
                  /\ k <= Len(creatures')
                  /\ (creatures[k].state = "roaming"
                          /\ creatures'[k].state = "waiting")
                       <=> (/\ pc = "update_creatures"
                            /\ idx = k
                            /\ creatures[k].state = "roaming"
                            /\ Len(foods') = Len(foods) - 1)
                  /\ creatures[k].state = "waiting" =>
                         creatures'[k].state = "waiting"
          /\ pc = "end_of_day" =>
               \A k \in 1..Len(creatures') :
                  creatures'[k].state = "roaming" /\ ~creatures'[k].ate]_vars

(* both creatures have been stepped in this call: the first has eaten,    *)
(* the second has not                                                      *)
FedIffAteWitness ==
    /\ pc = "update_creatures"
    /\ Len(creatures) = 2
    /\ idx = 3
    /\ creatures[1].state = "waiting" /\ creatures[1].ate
    /\ creatures[2].state = "roaming" /\ ~creatures[2].ate
    /\ Len(foods) = NUM_FOODS - 1

(* the identities of the creatures of a list, in its order *)
Ids(list) == [k \in 1..Len(list) |-> list[k].id]

(* C12: end_of_day keeps exactly the creatures that are 'waiting' when it *)
(* runs, in the order they had, and removes the others; the creatures it   *)
(* leaves are all 'roaming' with `ate` cleared and stand on boundary       *)
(* cells.                                                                  *)
EndOfDayPartition ==
    [][pc = "end_of_day" =>
          /\ \A j, k \in 1..Len(creatures) :
                j # k => creatures[j].id # creatures[k].id
          /\ Ids(creatures') =
                Ids(SelectSeq(creatures, LAMBDA c : c.state = "waiting"))
          /\ \A k \in 1..Len(creatures') :
                /\ creatures'[k].state = "roaming"
                /\ ~creatures'[k].ate
                /\ Position(creatures'[k]) \in BoundaryCells]_vars

(* end_of_day has removed the first creature and kept the second *)
EndOfDayPartitionWitness ==
    /\ pc = "init_foods"
    /\ ret = "end_of_day"
    /\ NUM_CREATURES = 2
    /\ Len(creatures) = 1
    /\ creatures[1].id = 2
    /\ creatures[1].state = "roaming"

(* C13, as claimed: every creature that end_of_day keeps has, right after *)
(* end_of_day, the position it had before it, which is the position it     *)
(* was given when it ate.                                                  *)
SurvivorKeepsFedPosition ==
    [][pc = "end_of_day" =>
          \A k \in 1..Len(creatures'), j \in 1..Len(creatures) :
              creatures[j].id = creatures'[k].id =>
                  Position(creatures'[k]) = Position(creatures[j])]_vars

(* C13, amended: the creature that eats is placed on a boundary cell and  *)
(* keeps that position through every step until end_of_day; end_of_day     *)
(* places every creature it keeps on a boundary cell drawn anew.           *)
FedPositionForTheDay ==
    [][/\ (/\ pc = "update_creatures"
           /\ idx <= Len(creatures)
           /\ creatures[idx].state = "roaming"
           /\ creatures'[idx].state = "waiting") =>
              Position(creatures'[idx]) \in BoundaryCells
       /\ pc # "end_of_day" =>
              \A k \in 1..Len(creatures) :
                  creatures[k].state = "waiting" =>
                      Position(creatures'[k]) = Position(creatures[k])
       /\ pc = "end_of_day" =>
              \A k \in 1..Len(creatures') :
                  Position(creatures'[k]) \in BoundaryCells]_vars

(* on a grid with an interior cell, the creature that ate was kept by     *)
(* end_of_day, which has placed it and rebuilt the food                    *)
FedPositionForTheDayWitness ==
    /\ pc = "end_of_day_tail"
    /\ GRID_SIZE = 3
    /\ Len(creatures) = 1
    /\ Position(creatures[1]) = <<2, 0>>

(* C14, as claimed: while update_creatures steps the creatures of a tick  *)
(* frame_counter is not yet advanced for that tick (it is still ticks mod  *)
(* DAY_LENGTH_FRAMES), the list of creatures keeps its members while they  *)
(* are stepped, and the day test that follows leads to end_of_day at most  *)
(* once.                                                                   *)
StepBeforeAdvance ==
    [][/\ pc = "update_creatures" =>
             /\ frame_counter = ticks % DAY_LENGTH_FRAMES
             /\ Ids(creatures') = Ids(creatures)
       /\ pc' = "end_of_day" => pc = "day_check"]_vars

(* C14, amended: in every iteration of the main loop frame_counter is     *)
(* advanced first, then update_creatures steps every creature once in the  *)
(* order of the list without changing the members of the list or the       *)
(* counter, then the day test is made and leads to end_of_day at most      *)
(* once, exactly when frame_counter >= DAY_LENGTH_FRAMES.                  *)
AdvanceThenStep ==
    [][/\ frame_counter' # frame_counter =>
             \/ /\ pc = "while"
                /\ frame_counter' = frame_counter + 1
                /\ pc' = "update_creatures"
                /\ idx' = 1
             \/ /\ pc = "end_of_day_tail"
                /\ frame_counter' = 0
       /\ pc = "update_creatures" =>
             /\ Ids(creatures') = Ids(creatures)
             /\ frame_counter' = frame_counter
             /\ \/ pc' = "update_creatures" /\ idx' = idx + 1
                \/ pc' = "day_check" /\ idx = Len(creatures) + 1
       /\ pc' = "end_of_day" => pc = "day_check"
       /\ pc = "day_check" =>
             /\ pc' = "end_of_day" <=> frame_counter >= DAY_LENGTH_FRAMES
             /\ pc' = "draw" <=> frame_counter < DAY_LENGTH_FRAMES
       /\ pc = "end_of_day_tail" => pc' = "draw"
       /\ pc = "draw" => pc' = "while" /\ ticks' = ticks + 1]_vars

(* in the second iteration the counter is advanced and the second of two  *)
(* creatures is about to be stepped                                        *)
AdvanceThenStepWitness ==
    /\ pc = "update_creatures"
    /\ ticks = 1
    /\ DAY_LENGTH_FRAMES = 2
    /\ frame_counter = 2
    /\ Len(creatures) = 2
    /\ idx = 2

(* C15: a step of update_creatures changes the creature at idx only and   *)
(* moves on to the next one; it removes at most one food item, and one     *)
(* exactly when that creature goes from 'roaming' to 'waiting'; a cell     *)
(* whose food was eaten in this call holds no food, and the food a         *)
(* creature eats is on a cell where none was eaten before in this call.    *)
FirstMoverConsumes ==
    [][(pc = "update_creatures" /\ idx <= Len(creatures)) =>
          /\ pc' = "update_creatures"
          /\ idx' = idx + 1
          /\ Len(creatures') = Len(creatures)
          /\ \A j \in 1..Len(creatures) :
                j # idx => creatures'[j] = creatures[j]
          /\ Len(foods') \in {Len(foods), Len(foods) - 1}
          /\ Len(foods') = Len(foods) - 1
                <=> (/\ creatures[idx].state = "roaming"
                     /\ creatures'[idx].state = "waiting")
          /\ \A p \in eaten : ~InList(p, foods)
          /\ IF Len(foods') = Len(foods)
               THEN eaten' = eaten
               ELSE \E p \in Cells \ eaten :
                       /\ eaten' = eaten \cup {p}
                       /\ InList(p, foods)
                       /\ ~InList(p, foods')]_vars

(* both creatures have been stepped in this call: the first ate, the      *)
(* second is still roaming and stands on the cell whose food was eaten     *)
FirstMoverConsumesWitness ==
    /\ pc = "update_creatures"
    /\ Len(creatures) = 2
    /\ idx = 3
    /\ creatures[1].state = "waiting"
    /\ creatures[2].state = "roaming"
    /\ eaten = {Position(creatures[2])}

(* the distance between two integers *)
Dist(a, b) == IF a >= b THEN a - b ELSE b - a

(* C16: when the step of a 'roaming' creature at (x, y) leaves it         *)
(* 'roaming', there is one of the five moves (dx, dy) such that its new x  *)
(* is x + dx when that is in [0, GRID_SIZE-1] and x otherwise, and         *)
(* likewise for y; it has moved by at most one cell on one axis, its cell  *)
(* holds no food and no food was removed.                                  *)
MoveStep ==
    [][(/\ pc = "update_creatures"
        /\ idx <= Len(creatures)
        /\ creatures[idx].state = "roaming"
        /\ creatures'[idx].state = "roaming") =>
          LET old == creatures[idx]
              new == creatures'[idx]
          IN  /\ \E d \in Moves :
                    /\ new.x = IF old.x + d[1] \in 0..(GRID_SIZE - 1)
                                 THEN old.x + d[1] ELSE old.x
                    /\ new.y = IF old.y + d[2] \in 0..(GRID_SIZE - 1)
                                 THEN old.y + d[2] ELSE old.y
              /\ Dist(new.x, old.x) + Dist(new.y, old.y) <= 1
              /\ ~new.ate
              /\ ~InList(Position(new), foods)
              /\ foods' = foods]_vars

(* on a grid of side 3 with food on it, the first creature has been       *)
(* stepped in the first tick and is roaming on the interior cell           *)
MoveStepWitness ==
    /\ pc = "update_creatures"
    /\ GRID_SIZE = 3
    /\ ticks = 0
    /\ idx = 2
    /\ Len(foods) >= 1
    /\ creatures[1].state = "roaming"
    /\ Position(creatures[1]) = <<1, 1>>

(* C17: init_foods first empties the list; each pass of its loop either   *)
(* leaves the list as it is or appends one cell of the grid that was not   *)
(* in it; and whenever NUM_FOODS <= GRID_SIZE * GRID_SIZE a call of        *)
(* init_foods leads to its return with exactly NUM_FOODS positions, all    *)
(* different and on the grid.                                              *)
FoodInitTerminates ==
    /\ [][/\ pc = "init_foods" => foods' = <<>>
          /\ pc = "init_foods_while" =>
                \/ foods' = foods
                \/ \E pos \in Cells :
                      ~InList(pos, foods) /\ foods' = Append(foods, pos)]_vars
    /\ (pc = "init_foods" /\ NUM_FOODS <= GRID_SIZE * GRID_SIZE)
          ~> (/\ pc \in {"init_creatures", "end_of_day_tail"}
              /\ Len(foods) = NUM_FOODS
              /\ \A j, k \in 1..Len(foods) : j # k => foods[j] # foods[k]
              /\ \A k \in 1..Len(foods) : foods[k] \in Cells)

(* init_foods, called by end_of_day after a creature ate, has returned    *)
(* with two food items                                                     *)
FoodInitTerminatesWitness ==
    /\ pc = "end_of_day_tail"
    /\ NUM_FOODS = 2
    /\ Len(foods) = 2
    /\ Len(creatures) >= 1

(* the number of creatures that are 'waiting' *)
FedCount == Cardinality({k \in 1..Len(creatures) : creatures[k].state = "waiting"})

(* init_foods has not been called yet or has not returned yet *)
InInitFoods == pc \in {"main", "init_foods", "init_foods_while"}

(* C18: outside a call of init_foods, the number of food items plus the   *)
(* number of 'waiting' creatures is NUM_FOODS; and the population that     *)
(* end_of_day leaves is no larger than the population before it and no     *)
(* larger than NUM_FOODS.                                                  *)
FoodConservation ==
    /\ [](~InInitFoods => Len(foods) + FedCount = NUM_FOODS)
    /\ [][pc = "end_of_day" =>
             /\ Len(creatures') <= Len(creatures)
             /\ Len(creatures') <= NUM_FOODS]_vars

(* both food items have been eaten, by two creatures, and end_of_day is   *)
(* about to run                                                            *)
FoodConservationWitness ==
    /\ pc = "end_of_day"
    /\ NUM_FOODS = 2
    /\ foods = <<>>
    /\ Len(creatures) = 2
    /\ FedCount = 2

=============================================================================
